---- MODULE Spec2Model ----
(***************************************************************************)
(* Model of xpp::input_validator (include/xeus-cpp/input_validator.hpp).   *)
(*                                                                         *)
(* A code fragment is modelled at the granularity the validator reads it:  *)
(* the sequence of lexemes the preprocessor hands out, each lexeme being   *)
(* one "character" of the string.  The buffer `input` is a sequence of     *)
(* lexemes and newline characters.  The token kinds keep the adjacency of  *)
(* clang's enumeration (closer = opener + 1), which the matching rule of   *)
(* validate relies on.                                                     *)
(***************************************************************************)
EXTENDS Integers, Sequences, FiniteSets, TLC

VARIABLES input, parenStack, lastResult, ndebug, aborted, op, ret, out, indet, turn, verdicts, stacks, turnStart

vars == <<input, parenStack, lastResult, ndebug, aborted, op, ret, out, indet, turn, verdicts, stacks, turnStart>>

(***************************************************************************)
(* Bounds of the model.                                                    *)
(***************************************************************************)
\* validate calls in a turn of the documented examples
MaxCalls == 2
\* tokens of a turn: the lexemes in the buffer, and one end-of-input per call
MaxTokens == 4

(***************************************************************************)
(* clang::tok::TokenKind: the kinds validate distinguishes.  Only the      *)
(* order and the adjacency opener/closer matter.                           *)
(***************************************************************************)
tok_unknown == 0
tok_eof == 1
tok_identifier == 5
tok_l_square == 19
tok_r_square == 20
tok_l_paren == 21
tok_r_paren == 22
tok_l_brace == 23
tok_r_brace == 24
tok_less == 46
tok_greater == 51
tok_comma == 62
tok_hash == 63

\* The lexemes of the model: punctuators, and identifiers by their spelling.
Punctuators == {"[", "]", "(", ")", "{", "}", "<", ">", ",", "#"}
Identifiers == {"if", "ifdef", "ifndef", "endif", "endifx", "else", "x"}
Lexemes == Punctuators \cup Identifiers

\* A clang::Token declared without initialiser holds an indeterminate kind
\* (clang::Token has no constructor): either outcome the build can produce.
UninitTokens == {"uninit_comma", "uninit_other"}

\* Token::getKind()
Kind(t) ==
    CASE t = "[" -> tok_l_square
      [] t = "]" -> tok_r_square
      [] t = "(" -> tok_l_paren
      [] t = ")" -> tok_r_paren
      [] t = "{" -> tok_l_brace
      [] t = "}" -> tok_r_brace
      [] t = "<" -> tok_less
      [] t = ">" -> tok_greater
      [] t = "," -> tok_comma
      [] t = "#" -> tok_hash
      [] t = "eof" -> tok_eof
      [] t = "uninit_comma" -> tok_comma
      [] t = "uninit_other" -> tok_unknown
      [] OTHER -> tok_identifier

\* StringRef(getCharacterData(token.getLocation()), token.getLength()):
\* the spelling of the token, as a sequence of characters.
TokenText(t) ==
    CASE t = "if" -> <<"i", "f">>
      [] t = "ifdef" -> <<"i", "f", "d", "e", "f">>
      [] t = "ifndef" -> <<"i", "f", "n", "d", "e", "f">>
      [] t = "endif" -> <<"e", "n", "d", "i", "f">>
      [] t = "endifx" -> <<"e", "n", "d", "i", "f", "x">>
      [] t = "else" -> <<"e", "l", "s", "e">>
      [] t = "elif" -> <<"e", "l", "i", "f">>
      [] t = "eof" -> <<>>
      [] OTHER -> <<t>>

\* llvm::StringRef::startswith
StartsWith(text, prefix) ==
    /\ Len(text) >= Len(prefix)
    /\ SubSeq(text, 1, Len(prefix)) = prefix

\* isspace
IsSpace(c) == c \in {" ", "\t", "\n", "\r"}

\* Preprocessor::Lex on the fragment: the lexeme at position pos, then eof.
Lex(code, pos) == IF pos <= Len(code) THEN code[pos] ELSE "eof"

(***************************************************************************)
(* validate: the scan loop.  A scan state holds the locals of validate and *)
(* the stack: [stack, result, token, lastSeenToken, pos], pos being the    *)
(* position of the next lexeme Lex hands out.                              *)
(***************************************************************************)
\* parenStack.empty() ? tok::unknown : parenStack.back()
Tos(stack) == IF stack = <<>> THEN tok_unknown ELSE stack[Len(stack)]

\* deque::pop_back
PopBack(stack) == SubSeq(stack, 1, Len(stack) - 1)

\* mutant: the closer compared with the opener's own kind
ClosesTosSameKind(kind, tos) == kind = tos

\* token.getKind() == tos+1
ClosesTos(kind, tos) == kind = tos + 1

\* mutant: the opener is not pushed
CaseOpenerNoPush(s) == s

\* case l_square, l_brace, l_paren: push the kind
CaseOpener(s) == [s EXCEPT !.stack = Append(s.stack, Kind(s.token))]

\* '}' will also pop a template '<' if there is one
PopTemplate(kind, stack) ==
    IF kind = tok_r_brace /\ Len(stack) = 1 /\ stack[Len(stack)] = tok_less
    THEN PopBack(stack)
    ELSE stack

\* case r_square, r_brace, r_paren
CaseCloser(s) ==
    IF ~ClosesTos(Kind(s.token), Tos(s.stack))
    THEN [s EXCEPT !.result = "invalid"]
    ELSE [s EXCEPT !.stack = PopTemplate(Kind(s.token), PopBack(s.stack))]

\* tokenText.startswith("if")
IsIfDirective(text) == StartsWith(text, <<"i", "f">>)

\* mutant: every name that starts with endif ends a conditional
IsEndifDirectivePrefixOnly(text) == StartsWith(text, <<"e", "n", "d", "i", "f">>)

\* tokenText.startswith("endif") && (size == 5 || text[5] == '/' || isspace(text[5]))
IsEndifDirective(text) ==
    /\ StartsWith(text, <<"e", "n", "d", "i", "f">>)
    /\ \/ Len(text) = 5
       \/ text[6] = "/"
       \/ IsSpace(text[6])

\* the endif branch: invalid unless a conditional marker is on top
EndifBranch(s) ==
    IF s.stack = <<>> \/ s.stack[Len(s.stack)] # tok_hash
    THEN [s EXCEPT !.result = "invalid"]
    ELSE [s EXCEPT !.stack = PopBack(s.stack)]

\* mutant: the token after '#' is lexed into a local of its own
CaseHashSeparateToken(s, code) ==
    LET t == [s EXCEPT !.pos = s.pos + 1]
        tokenText == TokenText(Lex(code, s.pos))
    IN  IF IsIfDirective(tokenText)
        THEN [t EXCEPT !.stack = Append(t.stack, tok_hash)]
        ELSE IF IsEndifDirective(tokenText)
             THEN EndifBranch(t)
             ELSE t

\* case hash: lex the next token and look at its spelling
CaseHash(s, code) ==
    LET t == [s EXCEPT !.token = Lex(code, s.pos), !.pos = s.pos + 1]
        tokenText == TokenText(t.token)
    IN  IF IsIfDirective(tokenText)
        THEN [t EXCEPT !.stack = Append(t.stack, tok_hash)]
        ELSE IF IsEndifDirective(tokenText)
             THEN EndifBranch(t)
             ELSE t

\* mutant: '<' pushed as a template marker
SwitchPushesLess(s, code) ==
    LET k == Kind(s.token)
    IN  CASE k \in {tok_l_square, tok_l_brace, tok_l_paren, tok_less} -> CaseOpener(s)
          [] k \in {tok_r_square, tok_r_brace, tok_r_paren} -> CaseCloser(s)
          [] k = tok_hash -> CaseHash(s, code)
          [] OTHER -> s

\* switch (token.getKind())
Switch(s, code) ==
    LET k == Kind(s.token)
    IN  CASE k \in {tok_l_square, tok_l_brace, tok_l_paren} -> CaseOpener(s)
          [] k \in {tok_r_square, tok_r_brace, tok_r_paren} -> CaseCloser(s)
          [] k = tok_hash -> CaseHash(s, code)
          [] OTHER -> s

\* one pass of the loop body: lastSeenToken = token; Lex(token); switch
LoopBody(s, code) ==
    Switch([s EXCEPT !.lastSeenToken = s.token,
                     !.token = Lex(code, s.pos),
                     !.pos = s.pos + 1], code)

\* mutant: the loop goes on after an invalid token
LoopConditionToEof(s) == Kind(s.token) # tok_eof

\* while (token.isNot(eof) && result != invalid)
LoopCondition(s) == Kind(s.token) # tok_eof /\ s.result # "invalid"

\* do { ... } while (...)
RECURSIVE DoWhile(_, _)
DoWhile(s, code) ==
    LET n == LoopBody(s, code)
    IN  IF LoopCondition(n) THEN DoWhile(n, code) ELSE n

\* mutant: every call starts from an empty stack
ScanStartEmptyStack(stack, uninit) ==
    [stack |-> <<>>, result |-> "complete", token |-> uninit,
     lastSeenToken |-> uninit, pos |-> 1]

\* the locals at the start of the scan; token and lastSeenToken are not initialised
ScanStart(stack, uninit) ==
    [stack |-> stack, result |-> "complete", token |-> uninit,
     lastSeenToken |-> uninit, pos |-> 1]

\* mutant: the continuation check looks for the wrong kind
ShouldContinueOnUnknown(lastSeenToken) == Kind(lastSeenToken) = tok_unknown

\* const bool should_continue = lastSeenToken.getKind() == tok::comma
ShouldContinue(lastSeenToken) == Kind(lastSeenToken) = tok_comma

\* mutant: what is left on the stack at the end is an error
FinalResultUnmatchedInvalid(should_continue, stack, result) ==
    IF should_continue THEN "incomplete"
    ELSE IF stack # <<>> THEN "invalid" ELSE result

\* mutant: the final condition does not look at the stack
FinalResultIgnoresStack(should_continue, stack, result) ==
    IF should_continue THEN "incomplete" ELSE result

\* mutant: || in place of && in the final condition
FinalResultOr(should_continue, stack, result) ==
    IF should_continue \/ (stack # <<>> \/ result # "invalid")
    THEN "incomplete"
    ELSE result

\* if (should_continue || (!parenStack.empty() && result != invalid)) result = incomplete
FinalResult(should_continue, stack, result) ==
    IF should_continue \/ (stack # <<>> /\ result # "invalid")
    THEN "incomplete"
    ELSE result

\* mutant: the newline appended to an empty buffer too
AppendInputAlwaysNewline(buf, code) == buf \o <<"\n">> \o code

\* if (!input.empty()) input.append("\n"); input.append(code)
AppendInput(buf, code) ==
    IF buf # <<>> THEN buf \o <<"\n">> \o code ELSE buf \o code

\* the scan of validate on a stack, and the verdict it returns
Scan(stack, code, uninit) == DoWhile(ScanStart(stack, uninit), code)

ValidateResult(stack, code, uninit) ==
    LET s == Scan(stack, code, uninit)
    IN  FinalResult(ShouldContinue(s.lastSeenToken), s.stack, s.result)

(***************************************************************************)
(* The callers' inputs.                                                    *)
(***************************************************************************)
\* the lexemes the bounded fragments are made of
Alphabet == {"[", "]", "(", ")", "{", "}", "<", ",", "#", "if", "endif", "x"}

\* every fragment of at most n lexemes
FragmentsUpTo(n) == UNION {[1..k -> Alphabet] : k \in 0..n}

\* the fragments of the documented examples, played in turns of their own
ExampleFragments ==
    { <<"x", "(", "x", ",", "x", ",">>, <<"x", ")">>,
      <<"#", "if", "x">>, <<"#", "ifdef", "x">>, <<"#", "ifndef", "x">>,
      <<"#", "endif">>, <<"#", "endifx">>, <<"#", "else">>,
      <<"#", "if", "(", ")", "#", "else">>, <<"[", "]", "#", "endif">>,
      <<"(", "#">>, <<"if", ")">>,
      <<"x", "<", "x", "{", "x", ",", "x", "}", ">">> }

\* what a caller hands to reset: no string (a null pointer), an empty string,
\* a string that is not empty
ResetArguments ==
    { [given |-> FALSE, text |-> <<>>],
      [given |-> TRUE, text |-> <<>>],
      [given |-> TRUE, text |-> <<"x">>] }

\* the tokens a turn of these fragments has lexed: lexemes and end-of-inputs
RECURSIVE TokenCount(_)
TokenCount(frags) ==
    IF frags = <<>> THEN 0
    ELSE Len(frags[1]) + 1 + TokenCount(Tail(frags))

\* the calls of the turn in progress (a reset closes the turn), their verdicts,
\* the stack each of them started from, and the buffer the turn started from
CurrentTurn == IF op = "validate" THEN turn ELSE <<>>
CurrentVerdicts == IF op = "validate" THEN verdicts ELSE <<>>
CurrentStacks == IF op = "validate" THEN stacks ELSE <<>>
CurrentStart == IF op = "validate" THEN turnStart ELSE input

(***************************************************************************)
(* State after construction: empty buffer, empty stack,                    *)
(* lastResult = complete.  ndebug is the build: with NDEBUG the assert of  *)
(* reset is compiled out.  op, ret, out and indet describe the last call:   *)
(* which it was, the verdict it returned, the caller's string after a      *)
(* reset, and the uninitialised token validate read at line 89, if any.    *)
(***************************************************************************)
Init ==
    /\ input = <<>>
    /\ parenStack = <<>>
    /\ lastResult = "complete"
    /\ ndebug \in BOOLEAN
    /\ aborted = FALSE
    /\ op = "init"
    /\ ret = "none"
    /\ out = <<>>
    /\ indet = "none"
    /\ turn = <<>>
    /\ verdicts = <<>>
    /\ stacks = <<>>
    /\ turnStart = <<>>

\* ValidationResult validate(code, compiler)
Validate(code, uninit) ==
    /\ ~aborted
    /\ LET s == Scan(parenStack, code, uninit)
           result == FinalResult(ShouldContinue(s.lastSeenToken), s.stack, s.result)
       IN  /\ parenStack' = s.stack
           /\ input' = AppendInput(input, code)
           /\ lastResult' = result
           /\ ret' = result
           /\ verdicts' = Append(CurrentVerdicts, result)
           /\ indet' = IF s.lastSeenToken \in UninitTokens THEN s.lastSeenToken ELSE "none"
    /\ op' = "validate"
    /\ out' = <<>>
    /\ turn' = Append(CurrentTurn, code)
    /\ stacks' = Append(CurrentStacks, parenStack)
    /\ turnStart' = CurrentStart
    /\ UNCHANGED <<aborted, ndebug>>

\* A new turn is started after construction and after a reset that handed no
\* text back: every reset leaves the validator in the same state, so the
\* turns that follow a reset that handed text back are these same turns.
TurnMayStart == op = "validate" \/ out = <<>>

\* a validate call on a fragment of the bounded set
ValidateFragment ==
    /\ TurnMayStart
    /\ \E code \in FragmentsUpTo(MaxTokens - Len(CurrentStart) - TokenCount(CurrentTurn) - 1) :
         \E uninit \in UninitTokens : Validate(code, uninit)

\* a validate call of a turn made of the documented examples
ValidateExample ==
    /\ TurnMayStart
    /\ Len(CurrentTurn) < MaxCalls
    /\ \A i \in 1..Len(CurrentTurn) : CurrentTurn[i] \in ExampleFragments
    /\ \E code \in ExampleFragments :
         \E uninit \in UninitTokens : Validate(code, uninit)

\* assert(code->empty() && "..."): fires when compiled in and the string is not empty
AssertFails(code) == code.given /\ ~ndebug /\ code.text # <<>>

\* the buffer after reset: code->swap(input), or std::string().swap(input)
ResetInput(code, buf) == IF code.given THEN code.text ELSE <<>>

\* mutant: the buffer is not handed to the caller's string
ResetOutputKeeps(code, buf) == IF code.given THEN code.text ELSE <<>>

\* the caller's string after reset: code->swap(input)
ResetOutput(code, buf) == IF code.given THEN buf ELSE <<>>

\* mutant: the stack is not cleared
ResetStackKeeps(stack) == stack

\* std::deque<int>().swap(parenStack)
ResetStack(stack) == <<>>

\* lastResult = ValidationResult::complete
ResetLastResult == "complete"

\* which call of reset this is
ResetKind(code) ==
    IF ~code.given THEN "reset_null"
    ELSE IF code.text = <<>> THEN "reset_out" ELSE "reset_misuse"

\* void reset(std::string* code), returning normally
Reset(code) ==
    /\ ~aborted
    /\ ~AssertFails(code)
    /\ input' = ResetInput(code, input)
    /\ out' = ResetOutput(code, input)
    /\ parenStack' = ResetStack(parenStack)
    /\ lastResult' = ResetLastResult
    /\ op' = ResetKind(code)
    /\ ret' = "none"
    /\ indet' = "none"
    /\ turn' = <<>> /\ verdicts' = <<>> /\ stacks' = <<>> /\ turnStart' = <<>>
    /\ UNCHANGED <<aborted, ndebug>>

\* void reset(std::string* code), the assert firing: the process aborts
ResetAbort(code) ==
    /\ ~aborted
    /\ AssertFails(code)
    /\ aborted' = TRUE
    /\ op' = ResetKind(code)
    /\ UNCHANGED <<input, parenStack, lastResult, ndebug, ret, out, indet, turn, verdicts,
                   stacks, turnStart>>

ResetReturns == \E code \in ResetArguments : Reset(code)

ResetAborts == \E code \in ResetArguments : ResetAbort(code)

Next ==
    \/ ValidateFragment
    \/ ValidateExample
    \/ ResetReturns
    \/ ResetAborts

Spec == Init /\ [][Next]_vars

(***************************************************************************)
(* Vocabulary of the claims.                                               *)
(***************************************************************************)
Openers == {"[", "{", "("}
Closers == {"]", "}", ")"}
Brackets == Openers \cup Closers

\* the closer that matches an opener, by spelling
CloserOf(t) == CASE t = "[" -> "]" [] t = "{" -> "}" [] t = "(" -> ")"

\* the last validate call of the turn: its fragment, the stack it started from
Called == op = "validate"
LastCode == turn[Len(turn)]
LastStack == stacks[Len(stacks)]

\* the scan of the i-th call of the turn (the stack and the result of a scan do
\* not depend on the uninitialised token, only lastSeenToken does)
ScanOf(i) == Scan(stacks[i], turn[i], "uninit_other")

\* the scan of the i-th call stopped at a closing bracket that did not match
MetMismatchedCloser(i) ==
    /\ ScanOf(i).result = "invalid"
    /\ ScanOf(i).token \in Closers

\* the last lexeme of a fragment, "" for the empty fragment
LastLexeme(code) == IF code = <<>> THEN "" ELSE code[Len(code)]

\* the fragments of a turn joined by single newlines
RECURSIVE Join(_)
Join(frags) ==
    IF frags = <<>> THEN <<>>
    ELSE IF Len(frags) = 1 THEN frags[1]
    ELSE Join(SubSeq(frags, 1, Len(frags) - 1)) \o <<"\n">> \o frags[Len(frags)]

\* a turn without its leading empty fragments
RECURSIVE DropLeadingEmpty(_)
DropLeadingEmpty(frags) ==
    IF frags = <<>> THEN <<>>
    ELSE IF frags[1] = <<>> THEN DropLeadingEmpty(Tail(frags))
    ELSE frags

(***************************************************************************)
(* C1: whenever the scan of a validate call meets a closing bracket while  *)
(* the stack is empty or its top is not the opener of the same kind, the   *)
(* call returns Invalid, whatever the other tokens are.  Stated for the    *)
(* calls whose verdict does not rest on an uninitialised token.            *)
(* Violated: a comma directly before the offending closer is the           *)
(* lastSeenToken when the loop stops, and turns the verdict to Incomplete. *)
(***************************************************************************)
C1_MismatchedCloserIsInvalid ==
    (Called /\ indet = "none" /\ MetMismatchedCloser(Len(turn))) => ret = "invalid"

(***************************************************************************)
(* C2: once a validate call of a turn has returned Invalid, every later    *)
(* validate call of the same turn returns Invalid.  Stated for the later   *)
(* calls whose verdict does not rest on an uninitialised token.            *)
(* Violated: result starts at complete in every call and lastResult is     *)
(* never read.                                                             *)
(***************************************************************************)
C2_InvalidIsSticky ==
    (Called /\ indet = "none") =>
        \A i \in 1..Len(verdicts) :
            verdicts[i] = "invalid" => verdicts[Len(verdicts)] = "invalid"

(***************************************************************************)
(* C3, as claimed: for a turn that started from an empty buffer and whose  *)
(* last verdict is Complete, reset with an empty string hands back the     *)
(* fragments of the turn joined by single newlines.                        *)
(* Violated: a fragment appended to an empty buffer gets no newline, so    *)
(* the empty fragments that lead the turn leave no trace.                  *)
(***************************************************************************)
C3_ResetHandsBackJoin ==
    [][(/\ Called
        /\ turnStart = <<>>
        /\ verdicts[Len(verdicts)] = "complete"
        /\ op' = "reset_out") => out' = Join(turn)]_vars

(***************************************************************************)
(* C3, amended: for such a turn, reset with an empty string hands back the *)
(* fragments of the turn from the first non-empty one on, joined by        *)
(* single newlines, in call order.                                         *)
(***************************************************************************)
C3_ResetHandsBackJoinFromFirstNonEmpty ==
    [][(/\ Called
        /\ turnStart = <<>>
        /\ verdicts[Len(verdicts)] = "complete"
        /\ op' = "reset_out") => out' = Join(DropLeadingEmpty(turn))]_vars

\* a reset has handed back a turn of two fragments that ended Complete
C3_Witness == op = "reset_out" /\ out = <<"(", "\n", ")">>

(***************************************************************************)
(* C4: after reset with an empty string or with no string, the stack is    *)
(* empty, the buffer is empty and the last verdict is Complete: the        *)
(* validator is in the state of a freshly constructed one, so the calls    *)
(* that follow behave as on a fresh validator.                             *)
(***************************************************************************)
C4_ResetGivesFreshState ==
    (op \in {"reset_null", "reset_out"}) =>
        /\ input = <<>>
        /\ parenStack = <<>>
        /\ lastResult = "complete"

\* a reset has cleared a validator that held an opener and its text
C4_Witness == op = "reset_out" /\ out = <<"(", "\n", "{">>

(***************************************************************************)
(* C5, as claimed: whenever the last token of a fragment before            *)
(* end-of-input is a comma, validate returns Incomplete, even with an      *)
(* empty stack; and on a fresh validator 'foo(1, 2,' yields Incomplete and *)
(* the following '3)' yields Complete.  Stated for the calls whose verdict *)
(* does not rest on an uninitialised token.                                *)
(* Violated: the scan stops at a mismatched closer or endif before it      *)
(* reaches the comma.                                                      *)
(***************************************************************************)
FooOpen == <<"x", "(", "x", ",", "x", ",">>
FooClose == <<"x", ")">>

C5_TrailingCommaIsIncomplete ==
    /\ (Called /\ indet = "none" /\ LastLexeme(LastCode) = ",") => ret = "incomplete"
    /\ (Called /\ turn = <<FooOpen>>) => ret = "incomplete"
    /\ (Called /\ turn = <<FooOpen, FooClose>>) => ret = "complete"

(***************************************************************************)
(* C5, amended: whenever the scan reaches end-of-input (no mismatched      *)
(* closer or endif stops it) and the last token before end-of-input is a   *)
(* comma, validate returns Incomplete, even with an empty stack; and on a  *)
(* fresh validator 'foo(1, 2,' yields Incomplete and the following '3)'    *)
(* yields Complete.                                                        *)
(***************************************************************************)
C5_TrailingCommaAtEofIsIncomplete ==
    /\ (/\ Called
        /\ LastLexeme(LastCode) = ","
        /\ ScanOf(Len(turn)).result # "invalid") => ret = "incomplete"
    /\ (Called /\ turn = <<FooOpen>>) => ret = "incomplete"
    /\ (Called /\ turn = <<FooOpen, FooClose>>) => verdicts = <<"incomplete", "complete">>

\* the example turn has been played to its end
C5_Witness == Called /\ turn = <<FooOpen, FooClose>> /\ ret = "complete" /\ parenStack = <<>>

EndsWithPushedOpener(i) ==
    /\ stacks[i] = <<>>
    /\ LastLexeme(turn[i]) \in Openers
    /\ ScanOf(i).result # "invalid"
    /\ Len(turn[i]) >= 2 => turn[i][Len(turn[i]) - 1] # "#"

IfFragments ==
    {<<"#", d>> : d \in {"if", "ifdef", "ifndef"}}
        \cup {<<"#", d, "x">> : d \in {"if", "ifdef", "ifndef"}}

C7_ConditionalDirectives ==
    /\ (Called /\ Len(turn) = 1 /\ LastCode \in IfFragments)
       => (ret = "incomplete" /\ parenStack = <<tok_hash>>)
    /\ (Called /\ Len(turn) = 2 /\ turn[1] \in IfFragments /\ LastCode = <<"#", "endif">>)
       => (ret = "complete" /\ parenStack = <<>>)
    /\ (/\ Called
        /\ LastCode = <<"#", "endif">>
        /\ (LastStack = <<>> \/ Tos(LastStack) # tok_hash))
       => ret = "invalid"

(***************************************************************************)
(* C8, as claimed: on a validator with an empty stack, every fragment that *)
(* contains no bracket token and whose last token is not a comma makes     *)
(* validate return Complete.  Stated for the calls whose verdict does not  *)
(* rest on an uninitialised token.                                         *)
(* Violated: '#if' pushes a conditional marker (Incomplete), '#endif'      *)
(* without one is Invalid.                                                 *)
(***************************************************************************)
NoLexemeIn(code, S) == \A i \in 1..Len(code) : code[i] \notin S

C9_ResetMisuseIsSignalled == op = "reset_misuse" => aborted

(***************************************************************************)
(* C10: every validate call, whatever its verdict, changes the buffer only *)
(* by appending: the buffer after the call is the buffer before it,        *)
(* followed by a newline if it was not empty, followed by the fragment;    *)
(* and lastResult is the verdict returned.                                 *)
(***************************************************************************)
C10_ValidateAppends ==
    [][op' = "validate" =>
        /\ input' = (IF input = <<>> THEN <<>> ELSE input \o <<"\n">>)
                        \o turn'[Len(turn')]
        /\ lastResult' = ret'
        /\ ret' \in {"complete", "incomplete", "invalid"}]_vars

\* an Invalid fragment has been appended after a newline
C10_Witness ==
    /\ Called
    /\ ret = "invalid"
    /\ input = <<"x", "\n", "]">>

(***************************************************************************)
(* C11: on a fresh validator, the single fragment Foo < Bar { 1 , 2 } >    *)
(* returns Complete and leaves the stack empty.                            *)
(***************************************************************************)
TemplateExample == <<"x", "<", "x", "{", "x", ",", "x", "}", ">">>

C11_TemplateExampleIsComplete ==
    (Called /\ turn = <<TemplateExample>>) => (ret = "complete" /\ parenStack = <<>>)

\* the example has been validated as the first fragment of a turn
C11_Witness == Called /\ turn = <<TemplateExample>> /\ lastResult = "complete"

(***************************************************************************)
(* C12: in every reachable state each entry of the stack is open-square,   *)
(* open-brace, open-paren or the conditional marker; a less-than marker is *)
(* never on the stack, so the extra pop after a matched closing brace      *)
(* never removes an entry.                                                 *)
(***************************************************************************)
StackKinds == {tok_l_square, tok_l_brace, tok_l_paren, tok_hash}

C12_StackHoldsOpenersAndMarkers ==
    /\ \A i \in 1..Len(parenStack) : parenStack[i] \in StackKinds
    /\ \A i \in 1..Len(parenStack) : parenStack[i] # tok_less
    /\ PopTemplate(tok_r_brace, parenStack) = parenStack

\* a closing brace has been matched with exactly one entry left below it
C12_Witness ==
    /\ Called
    /\ turn = << <<"(", "{", "}">> >>
    /\ parenStack = <<tok_l_paren>>

(***************************************************************************)
(* C13: whenever validate returns Complete the stack is empty on return; a *)
(* validate call that ends with a non-empty stack returns Incomplete or    *)
(* Invalid.                                                                *)
(***************************************************************************)
C13_CompleteMeansEmptyStack ==
    /\ (Called /\ ret = "complete") => parenStack = <<>>
    /\ (Called /\ parenStack # <<>>) => ret \in {"incomplete", "invalid"}

\* a call has returned Complete after popping what an earlier call pushed
C13_Witness ==
    /\ Called
    /\ Len(turn) = 2
    /\ stacks[2] = <<tok_l_square>>
    /\ ret = "complete"

(***************************************************************************)
(* A reference walk over a fragment, written from the spellings alone: the *)
(* openers push, a closer pops the opener it matches, '#' takes the next   *)
(* lexeme as the directive name, the if-class names push a marker and      *)
(* endif pops one.  The walk stops at the first closer or endif that finds *)
(* no match on top; bad is the position of that lexeme, 0 when there is    *)
(* none, and stack is the stack before it (at end-of-input when bad = 0).  *)
(***************************************************************************)
IfNames == {"if", "ifdef", "ifndef"}

RECURSIVE RefWalk(_, _, _)
RefWalk(stack, code, i) ==
    IF i > Len(code) THEN [stack |-> stack, bad |-> 0]
    ELSE LET t == code[i]
             onTop(e) == stack # <<>> /\ e = stack[Len(stack)]
             rest == SubSeq(stack, 1, Len(stack) - 1)
         IN  CASE t \in Openers -> RefWalk(Append(stack, Kind(t)), code, i + 1)
               [] t \in Closers ->
                    IF \E o \in Openers : onTop(Kind(o)) /\ CloserOf(o) = t
                    THEN RefWalk(rest, code, i + 1)
                    ELSE [stack |-> stack, bad |-> i]
               [] t = "#" /\ i < Len(code) ->
                    LET d == code[i + 1]
                    IN  IF d \in IfNames THEN RefWalk(Append(stack, tok_hash), code, i + 2)
                        ELSE IF d = "endif"
                             THEN IF onTop(tok_hash)
                                  THEN RefWalk(rest, code, i + 2)
                                  ELSE [stack |-> stack, bad |-> i + 1]
                             ELSE RefWalk(stack, code, i + 2)
               [] OTHER -> RefWalk(stack, code, i + 1)

\* the reference walk of the last call of the turn
LastWalk == RefWalk(LastStack, LastCode, 1)

(***************************************************************************)
(* C14: validate returns Invalid only if its scan met a closing bracket    *)
(* that does not match the top of the stack (or an empty stack) or an      *)
(* endif with no conditional marker on top; openers and markers left       *)
(* unmatched at end-of-input never produce Invalid.                        *)
(***************************************************************************)
C14_InvalidOnlyFromMismatch ==
    /\ (Called /\ ret = "invalid") =>
           /\ LastWalk.bad # 0
           /\ LastCode[LastWalk.bad] \in Closers \cup {"endif"}
    /\ (Called /\ LastWalk.bad = 0 /\ LastWalk.stack # <<>>) => ret # "invalid"

\* a call has returned Invalid at a closer that met the wrong opener, and
\* another has left an opener unmatched
C14_Witness ==
    /\ Called
    /\ turn = << <<"(">>, <<"]">> >>
    /\ verdicts = <<"incomplete", "invalid">>

(***************************************************************************)
(* C15: when the scan meets a closing bracket or an endif that does not    *)
(* match, that token leaves the stack unchanged and the scan stops there:  *)
(* it is the last token fetched, no token after it is pushed or popped,    *)
(* and the stack on return is the stack just before it.                    *)
(***************************************************************************)
C15_MismatchStopsTheScan ==
    (Called /\ LastWalk.bad # 0) =>
        /\ parenStack = LastWalk.stack
        /\ ScanOf(Len(turn)).pos - 1 = LastWalk.bad
        /\ ScanOf(Len(turn)).token = LastCode[LastWalk.bad]

\* an opener follows the closer that did not match: it has not been pushed
C15_Witness ==
    /\ Called
    /\ turn = << <<"(", "]", "{">> >>
    /\ parenStack = <<tok_l_paren>>

(***************************************************************************)
(* The reference classification of a word of brackets, with the openers    *)
(* still open kept by spelling: Complete for a balanced word, Incomplete   *)
(* for a proper prefix of one with an opener left open, Invalid otherwise. *)
(***************************************************************************)
RECURSIVE Classify(_, _)
Classify(open, word) ==
    IF word = <<>> THEN (IF open = <<>> THEN "complete" ELSE "incomplete")
    ELSE IF word[1] \in Openers THEN Classify(Append(open, word[1]), Tail(word))
    ELSE IF open # <<>> /\ CloserOf(open[Len(open)]) = word[1]
         THEN Classify(SubSeq(open, 1, Len(open) - 1), Tail(word))
         ELSE "invalid"

\* the turn is one fragment of brackets given to a fresh validator
BracketFragmentOnFresh ==
    /\ Called
    /\ Len(turn) = 1
    /\ turnStart = <<>>
    /\ stacks[1] = <<>>
    /\ \A i \in 1..Len(turn[1]) : turn[1][i] \in Brackets

(***************************************************************************)
(* C16: on a fresh validator, for every single fragment made only of the   *)
(* six bracket tokens, the verdict equals the reference classification.    *)
(* Violated: when the loop body runs once (the empty fragment, or a        *)
(* fragment that starts with a closer), line 89 reads the kind of a token  *)
(* that was never initialised, and when that kind is comma the verdict is  *)
(* Incomplete.                                                             *)
(***************************************************************************)
C16_BracketsAreClassified ==
    BracketFragmentOnFresh => ret = Classify(<<>>, turn[1])

(***************************************************************************)
(* C17: a '#' followed by a directive name that neither begins with 'if'   *)
(* nor is 'endif' leaves the stack and the verdict unchanged: put in front *)
(* of a fragment or after it, such a directive changes neither the stack   *)
(* nor the result of the scan, and in front of a fragment it changes the   *)
(* verdict returned neither (when that verdict is a determinate one); so   *)
(* the turn '#if () #else' then '[] #endif' on an empty stack ends with an *)
(* empty stack and the verdict Complete.                                   *)
(***************************************************************************)
OtherDirectiveNames == {"else", "elif", "endifx", "x"}

IfElseOpen == <<"#", "if", "(", ")", "#", "else">>
IfElseClose == <<"[", "]", "#", "endif">>

C17_OtherDirectivesChangeNothing ==
    /\ Called =>
         \A d \in OtherDirectiveNames :
            LET plain == ScanOf(Len(turn))
                after == Scan(LastStack, LastCode \o <<"#", d>>, "uninit_other")
                front == Scan(LastStack, <<"#", d>> \o LastCode, "uninit_other")
            IN  /\ after.stack = plain.stack /\ after.result = plain.result
                /\ front.stack = plain.stack /\ front.result = plain.result
                /\ indet = "none" =>
                     \A u \in UninitTokens :
                        ValidateResult(LastStack, <<"#", d>> \o LastCode, u) = ret
    /\ (Called /\ turn = <<IfElseOpen, IfElseClose>> /\ stacks[1] = <<>>) =>
           /\ verdicts = <<"incomplete", "complete">>
           /\ parenStack = <<>>

\* the turn '#if () #else', '[] #endif' has been played
C17_Witness ==
    /\ Called
    /\ turn = <<IfElseOpen, IfElseClose>>
    /\ ret = "complete"

(***************************************************************************)
(* C18: validate terminates on every fragment.  The scan fetches the       *)
(* tokens of the fragment in order, each at most once (the number of       *)
(* fetches is the position the scan has reached), and stops at             *)
(* end-of-input or at the first invalid token: when it stops, the last     *)
(* token fetched is end-of-input, fetched once and last, or the result is  *)
(* invalid and end-of-input has not been fetched; this also when the       *)
(* token fetched right after a '#' is end-of-input.                        *)
(***************************************************************************)
Fetched(s) == s.pos - 1

C18_ScanIsBounded ==
    Called =>
        LET s == ScanOf(Len(turn))
        IN  /\ Fetched(s) <= Len(LastCode) + 1
            /\ s.token = "eof" \/ s.result = "invalid"
            /\ s.token = "eof" <=> Fetched(s) = Len(LastCode) + 1
            /\ s.token # "eof" => s.token = LastCode[Fetched(s)]

\* a fragment that ends with '#' has been scanned: end-of-input was fetched
\* by the directive case
C18_Witness ==
    /\ Called
    /\ LastCode = <<"x", "#">>
    /\ ScanOf(Len(turn)).token = "eof"

(***************************************************************************)
(* The tokens of a turn as one fragment, and the turns the splitting claim *)
(* is about: played on a fresh validator, every call but the last having   *)
(* returned Incomplete.                                                    *)
(***************************************************************************)
RECURSIVE Concat(_)
Concat(frags) == IF frags = <<>> THEN <<>> ELSE frags[1] \o Concat(Tail(frags))

SplitTurn ==
    /\ Called
    /\ stacks[1] = <<>>
    /\ \A i \in 1..(Len(turn) - 1) : verdicts[i] = "incomplete"

\* the last call returned what one call on the whole returns, and left its stack
SameAsWhole ==
    \A u \in UninitTokens :
        /\ ret = ValidateResult(<<>>, Concat(turn), u)
        /\ parenStack = Scan(<<>>, Concat(turn), u).stack

\* the verdict of the i-th call does not rest on the uninitialised token
Determinate(i) == ScanOf(i).lastSeenToken \notin UninitTokens

====
